---- MODULE Spec2Model ----
(***************************************************************************)
(* A model of the gridtools icosahedral "stencil on cells" example         *)
(* (examples/icosahedral/stencil_on_cells.hpp), of the computation it      *)
(* drives, and of the dual-resident buffer hybrid_pointer                  *)
(* (include/hybrid_pointer.h).                                             *)
(*                                                                         *)
(* Field values are doubles in the code; every value the example stores    *)
(* is a small integer (linear indices, loop counters, sums of at most      *)
(* three of them), which doubles represent exactly, so the model uses      *)
(* integers.                                                               *)
(***************************************************************************)
EXTENDS Integers, Sequences, FiniteSets, TLC

\* ------------------------------------------------------------------ bounds
\* largest horizontal mesh dimension (x, y of soc::test)
MaxDim == 4
\* largest number of vertical levels (z of soc::test)
MaxLevels == 2
\* largest number of stages given to make_mss
MaxEsf == 2
\* largest t_steps given to soc::test
MaxSteps == 2
\* largest number of run() calls of the free-running caller
MaxRuns == 2
\* width in bits of the model's uint_t
UIntBits == 8
\* largest element count of a hybrid_pointer
MaxSize == 2
\* largest number of hybrid_pointer objects alive (the original and its copies)
MaxObjs == 3

\* -------------------------------------------------------- program constants
halo_nc == 1
halo_mc == 1
halo_k == 0
\* icosahedral_topology_t::cells::n_colors: upward and downward triangles
n_colors == 2
\* the contents a storage made by make_storage holds before anything is
\* written to it: unspecified, but fixed once allocated
UninitValues == {0, 5}
\* the execution orders of execute<>
Orders == {"forward", "backward"}
StorageNames == {"in", "i", "j", "c", "k", "out", "ref"}

VARIABLES
    d1, d2, d3,      \* the mesh dimensions
    uninit,          \* what unwritten storage memory holds
    storage,         \* storage[name][<<i, c, j, k>>]
    n_esf,           \* number of stages of the mss
    order,           \* execution order of the mss
    life,            \* lifecycle state of the computation
    pc,              \* position of the caller
    running,         \* a run() is executing
    trace,           \* the Do invocations of the current run, in order
    runs,            \* completed run() calls
    benchmark,       \* built with BENCHMARK
    t_steps, t,      \* the benchmark loop
    result,          \* what verify returned
    preRun,          \* the storages when the current or last run() began
    firstOut,        \* the out storage when the first run() returned
    called,          \* the lifecycle calls made so far
    cudacc,          \* hybrid_pointer: built with __CUDACC__
    hp,              \* hybrid_pointer objects, the original first
    mem,             \* contents of the allocated buffers
    readVal,         \* the value the last indexed read returned
    trip             \* progress of a host-write / sync / sync round trip

stencilVars == <<d1, d2, d3, uninit, storage, n_esf, order, life, pc, running,
                 trace, runs, benchmark, t_steps, t, result, preRun, firstOut, called>>
hpVars == <<cudacc, hp, mem, readVal, trip>>
vars == <<stencilVars, hpVars>>

\* ------------------------------------------------------------- arithmetic
UIntMod == 2 ^ UIntBits
\* uint_t subtraction
USub(a, b) == (a - b + UIntMod) % UIntMod

\* --------------------------------------------------------------- storages
Points(x, y, z) == (0 .. x - 1) \X (0 .. n_colors - 1) \X (0 .. y - 1) \X (0 .. z - 1)

\* meta_data().index: the linear index of (i, c, j, k)
index(x, y, z, p) == ((p[1] * n_colors + p[2]) * y + p[3]) * z + p[4]

\* a read of a field; a point outside the storage would read foreign memory,
\* which no run and no reference walk of a mesh of at least twice the halo does
At(field, q) == IF q \in DOMAIN field THEN field[q] ELSE 77

\* the points the initialisation loops of soc::test write
InitLoop(x, y, z, p) ==
    /\ 1 <= p[1] /\ p[1] < USub(x, 1)
    /\ 0 <= p[2] /\ p[2] < n_colors
    /\ 1 <= p[3] /\ p[3] < USub(y, 1)
    /\ 0 <= p[4] /\ p[4] < z

\* what the storage named n holds at p when the computation is built: the
\* loops of soc::test write in, i, c, j, k at the points they walk, out and
\* ref are initialize(0.0)d, everything else is as make_storage left it
InitialValue(x, y, z, u, n, p) ==
    CASE n \in {"out", "ref"} -> 0
      [] ~InitLoop(x, y, z, p) -> u
      [] n = "in" -> index(x, y, z, p)
      [] n = "i" -> p[1]
      [] n = "c" -> p[2]
      [] n = "j" -> p[3]
      [] n = "k" -> p[4]

\* the storages when the computation is built
InitialStorage(x, y, z, u) ==
    [n \in StorageNames |-> [p \in Points(x, y, z) |-> InitialValue(x, y, z, u, n, p)]]

\* ------------------------------------------------------------------- grid
di_wide(x) == [n \in 0 .. 4 |-> <<halo_nc, halo_nc, halo_nc, USub(x, halo_nc), x>>[n + 1]]
dj_late(y) == [n \in 0 .. 4 |-> <<halo_mc, halo_mc, halo_mc + 1, USub(USub(y, halo_mc), 1), y>>[n + 1]]
\* the grid's horizontal bounds: {halo, halo, interior begin, interior end, length}
di(x) == [n \in 0 .. 4 |-> <<halo_nc, halo_nc, halo_nc, USub(USub(x, halo_nc), 1), x>>[n + 1]]
dj(y) == [n \in 0 .. 4 |-> <<halo_mc, halo_mc, halo_mc, USub(USub(y, halo_mc), 1), y>>[n + 1]]
value_list(z) == [n \in 0 .. 1 |-> <<0, USub(z, 1)>>[n + 1]]

\* number of iterations of an inclusive loop lo..hi
Extent(lo, hi) == IF hi < lo THEN 0 ELSE hi - lo + 1

\* ----------------------------------------------------------- the topology
\* neighbours_of<cells, cells>: the three cells sharing an edge with p
neighbours_of(p) ==
    IF p[2] = 0
    THEN << <<p[1] - 1, 1, p[3], p[4]>>, <<p[1], 1, p[3], p[4]>>, <<p[1], 1, p[3] - 1, p[4]>> >>
    ELSE << <<p[1] + 1, 0, p[3], p[4]>>, <<p[1], 0, p[3], p[4]>>, <<p[1], 0, p[3] + 1, p[4]>> >>

\* ------------------------------------------------------------- the functor
\* the combiner of test_on_cells_functor::Do
ff(_in, _res) == _in + _res

\* on_cells(ff, seed, field) evaluated at p: the left fold of ff over the
\* neighbours in the order the topology enumerates them
on_cells(seed, field, p) ==
    LET ns == neighbours_of(p)
        r[n \in 0 .. Len(ns)] == IF n = 0 THEN seed ELSE ff(At(field, ns[n]), r[n - 1])
    IN  r[Len(ns)]

Do_seed(st, p) == [st EXCEPT !["out"][p] = on_cells(1, st["in"], p)]
Do_accumulate(st, p) == [st EXCEPT !["out"][p] = on_cells(st["out"][p], st["in"], p)]
\* test_on_cells_functor::Do at p: eval(out()) = eval(on_cells(ff, 0.0, in()))
Do(st, p) == [st EXCEPT !["out"][p] = on_cells(0, st["in"], p)]

\* ------------------------------------------------------- the host kernel
\* the iteration domain of one run: i, colour, j over the grid's interior
\* box, k over the vertical interval, the stages of the mss at each level
NI == Extent(di(d1)[2], di(d1)[3])
NJ == Extent(dj(d2)[2], dj(d2)[3])
NK == Extent(value_list(d3)[0], value_list(d3)[1])
IterCount == NI * n_colors * NJ * NK * n_esf

LevelAt_up(n) == value_list(d3)[0] + n
\* the level visited as the n-th of a column
LevelAt(n) ==
    IF order = "backward" THEN value_list(d3)[1] - n ELSE value_list(d3)[0] + n

\* the n-th (from 0) invocation of a run: <<stage, point>>
IterAt(n) ==
    LET e == n % n_esf
        k == (n \div n_esf) % NK
        j == (n \div (n_esf * NK)) % NJ
        c == (n \div (n_esf * NK * NJ)) % n_colors
        i == n \div (n_esf * NK * NJ * n_colors)
    IN  <<e, <<di(d1)[2] + i, c, dj(d2)[2] + j, LevelAt(k)>> >>

\* ---------------------------------------------------------- the lifecycle
LifeAfter_lax(l, call) ==
    CASE call = "ready" -> IF l = "built" THEN "ready" ELSE l
      [] call = "steady" -> IF l = "ready" THEN "steady" ELSE l
      [] call = "run" -> IF l \in {"ready", "steady", "running"} THEN "running" ELSE "fatal"
      [] call = "finalize" -> "finalized"
\* the state of a computation after a call made in state l
LifeAfter(l, call) ==
    CASE call = "ready" -> IF l = "built" THEN "ready" ELSE l
      [] call = "steady" -> IF l = "ready" THEN "steady" ELSE l
      [] call = "run" -> IF l \in {"steady", "running"} THEN "running" ELSE "fatal"
      [] call = "finalize" -> "finalized"

\* run() is entered: the pass starts only from steady or running
RunCall ==
    /\ ~running
    /\ life' = LifeAfter(life, "run")
    /\ IF life' = "running"
       THEN /\ running' = TRUE
            /\ trace' = <<>>
            /\ preRun' = storage
       ELSE UNCHANGED <<running, trace, preRun>>

\* one invocation of the functor by the kernel
RunStep ==
    /\ running
    /\ Len(trace) < IterCount
    /\ LET it == IterAt(Len(trace))
       IN  /\ storage' = Do(storage, it[2])
           /\ trace' = Append(trace, it)
    /\ UNCHANGED <<d1, d2, d3, uninit, n_esf, order, life, pc, running, runs,
                   benchmark, t_steps, t, result, preRun, firstOut>>
    /\ UNCHANGED called
    /\ UNCHANGED hpVars

\* run() returns, the whole iteration domain done
RunReturn ==
    /\ running
    /\ Len(trace) = IterCount
    /\ running' = FALSE
    /\ runs' = runs + 1
    /\ firstOut' = IF runs = 0 THEN storage["out"] ELSE firstOut
    /\ pc' = IF pc = "run" THEN "reference" ELSE pc
    /\ t' = IF pc = "bench" THEN t + 1 ELSE t
    /\ UNCHANGED <<d1, d2, d3, uninit, storage, n_esf, order, life, trace,
                   benchmark, t_steps, result, preRun>>
    /\ UNCHANGED called
    /\ UNCHANGED hpVars

\* ------------------------------------------------------------ soc::test
TestReady ==
    /\ pc = "ready"
    /\ life' = LifeAfter(life, "ready")
    /\ pc' = "steady"
    /\ UNCHANGED <<d1, d2, d3, uninit, storage, n_esf, order, running, trace, runs,
                   benchmark, t_steps, t, result, preRun, firstOut>>
    /\ called' = called \cup {"ready"}
    /\ UNCHANGED hpVars

TestSteady ==
    /\ pc = "steady"
    /\ life' = LifeAfter(life, "steady")
    /\ pc' = "run"
    /\ UNCHANGED <<d1, d2, d3, uninit, storage, n_esf, order, running, trace, runs,
                   benchmark, t_steps, t, result, preRun, firstOut>>
    /\ called' = called \cup {"steady"}
    /\ UNCHANGED hpVars

TestRun ==
    /\ pc = "run"
    /\ RunCall
    /\ UNCHANGED <<d1, d2, d3, uninit, storage, n_esf, order, pc, runs,
                   benchmark, t_steps, t, result, firstOut>>
    /\ called' = called \cup {"run"}
    /\ UNCHANGED hpVars

\* the points the reference loops of soc::test walk
RefLoopPoints(x, y, z) ==
    {p \in Points(x, y, z) : /\ halo_nc <= p[1] /\ p[1] < USub(x, halo_nc)
                             /\ halo_mc <= p[3] /\ p[3] < USub(y, halo_mc)}

\* ref_cells(i, c, j, k) += in_cells(*iter) over the neighbours of the point
RefSum(ref0, field, p) ==
    LET ns == neighbours_of(p)
        r[n \in 0 .. Len(ns)] == IF n = 0 THEN ref0 ELSE r[n - 1] + At(field, ns[n])
    IN  r[Len(ns)]

Reference ==
    /\ pc = "reference"
    /\ storage' = [storage EXCEPT !["ref"] =
            [p \in Points(d1, d2, d3) |->
                IF p \in RefLoopPoints(d1, d2, d3)
                THEN RefSum(storage["ref"][p], storage["in"], p)
                ELSE storage["ref"][p]]]
    /\ pc' = "verify"
    /\ UNCHANGED <<d1, d2, d3, uninit, n_esf, order, life, running, trace, runs,
                   benchmark, t_steps, t, result, preRun, firstOut>>
    /\ UNCHANGED called
    /\ UNCHANGED hpVars

halos == << <<halo_nc, halo_nc>>, <<0, 0>>, <<halo_mc, halo_mc>>, <<halo_k, halo_k>> >>

\* ver.verify(grid_, ref_cells, out_cells, halos): the fields agree, within
\* the tolerance, at every point not in a halo
verify(a, b) ==
    \A p \in Points(d1, d2, d3) :
        (\A n \in 1 .. 4 :
            /\ halos[n][1] <= p[n]
            /\ p[n] < <<d1, n_colors, d2, d3>>[n] - halos[n][2])
        => a[p] = b[p]

Verify ==
    /\ pc = "verify"
    /\ result' = verify(storage["ref"], storage["out"])
    /\ pc' = IF benchmark THEN "bench" ELSE "done"
    /\ t' = 1
    /\ UNCHANGED <<d1, d2, d3, uninit, storage, n_esf, order, life, running, trace,
                   runs, benchmark, t_steps, preRun, firstOut>>
    /\ UNCHANGED called
    /\ UNCHANGED hpVars

BenchRun ==
    /\ pc = "bench"
    /\ t < t_steps
    /\ RunCall
    /\ UNCHANGED <<d1, d2, d3, uninit, storage, n_esf, order, pc, runs,
                   benchmark, t_steps, t, result, firstOut>>
    /\ called' = called \cup {"run"}
    /\ UNCHANGED hpVars

BenchFinalize ==
    /\ pc = "bench"
    /\ ~running
    /\ ~(t < t_steps)
    /\ life' = LifeAfter(life, "finalize")
    /\ pc' = "done"
    /\ UNCHANGED <<d1, d2, d3, uninit, storage, n_esf, order, running, trace, runs,
                   benchmark, t_steps, t, result, preRun, firstOut>>
    /\ called' = called \cup {"finalize"}
    /\ UNCHANGED hpVars

\* ------------------------------------------------ a caller of any sequence
ApiCall(call) ==
    /\ pc = "api"
    /\ ~running
    /\ life # "fatal"
    /\ life' = LifeAfter(life, call)
    /\ UNCHANGED <<d1, d2, d3, uninit, storage, n_esf, order, pc, running, trace,
                   runs, benchmark, t_steps, t, result, preRun, firstOut>>
    /\ called' = called \cup {call}
    /\ UNCHANGED hpVars

ApiReady == ApiCall("ready")

ApiSteady == ApiCall("steady")

ApiFinalize == ApiCall("finalize")

ApiRun ==
    /\ pc = "api"
    /\ life # "fatal"
    /\ runs < MaxRuns
    /\ RunCall
    /\ UNCHANGED <<d1, d2, d3, uninit, storage, n_esf, order, pc, runs,
                   benchmark, t_steps, t, result, firstOut>>
    /\ called' = called \cup {"run"}
    /\ UNCHANGED hpVars

\* ---------------------------------------------------------- hybrid_pointer
\* no hybrid_pointer is in use
HpIdle ==
    /\ cudacc = FALSE
    /\ hp = <<>>
    /\ mem = <<>>
    /\ readVal = 0
    /\ trip = <<>>

\* the element values written and read
Values == {0, 1}

\* hybrid_pointer(size) in a build with (cuda) or without __CUDACC__: the
\* host buffer is new T[size], the accelerator buffer exists only under
\* __CUDACC__ and gpu_p is left unset otherwise; cuda_arch records that the
\* object was made by code compiled with __CUDA_ARCH__
hybrid_pointer(size, cuda) ==
    [cpu_p |-> "host",
     gpu_p |-> IF cuda THEN "device" ELSE "unset",
     pointer_to_use |-> "host",
     size |-> size,
     cuda_arch |-> FALSE]

\* allocate_it(size): the buffers allocated, unwritten memory holding a and b
allocate_it(size, cuda, a, b) ==
    IF cuda
    THEN [n \in {"host", "device"} |->
             [i \in 0 .. size - 1 |-> IF n = "host" THEN a ELSE b]]
    ELSE [n \in {"host"} |-> [i \in 0 .. size - 1 |-> a]]

copy_default(other, cuda_arch) ==
    [cpu_p |-> other.cpu_p,
     gpu_p |-> other.gpu_p,
     pointer_to_use |-> other.pointer_to_use,
     size |-> other.size,
     cuda_arch |-> cuda_arch]
\* hybrid_pointer(hybrid_pointer const& other), compiled with (cuda_arch)
\* or without __CUDA_ARCH__
copy_construct(other, cuda_arch) ==
    [cpu_p |-> other.cpu_p,
     gpu_p |-> other.gpu_p,
     pointer_to_use |-> IF cuda_arch THEN other.gpu_p ELSE other.cpu_p,
     size |-> other.size,
     cuda_arch |-> cuda_arch]

\* the first n elements of buffer src copied over those of buffer dst
Memcpy(m, dst, src, n) ==
    [m EXCEPT ![dst] = [i \in DOMAIN m[dst] |-> IF i < n THEN m[src][i] ELSE m[dst][i]]]

update_gpu_reversed(m, obj, cuda) ==
    IF cuda THEN Memcpy(m, obj.cpu_p, obj.gpu_p, obj.size) ELSE m
\* update_gpu(): cudaMemcpy(gpu_p, cpu_p, size*sizeof(T)) under __CUDACC__
update_gpu(m, obj, cuda) ==
    IF cuda THEN Memcpy(m, obj.gpu_p, obj.cpu_p, obj.size) ELSE m

update_cpu_short(m, obj, cuda) ==
    IF cuda THEN Memcpy(m, obj.cpu_p, obj.gpu_p, obj.size - 1) ELSE m
\* update_cpu(): cudaMemcpy(cpu_p, gpu_p, size*sizeof(T)) under __CUDACC__
update_cpu(m, obj, cuda) ==
    IF cuda THEN Memcpy(m, obj.cpu_p, obj.gpu_p, obj.size) ELSE m

\* the round trip of element i: <<0, _>> none under way, <<1, v>> v written
\* through the host side, <<2, v>> and update_gpu() made, <<3, v>> and
\* update_cpu() made, no write having changed the element on the way
NoTrip == <<0, 0>>

\* a copy is made of object o by code compiled with or without __CUDA_ARCH__;
\* the copy constructor is __device__, so code compiled by nvcc makes copies
\* on the accelerator only
Copy(o, cuda_arch) ==
    /\ Len(hp) < MaxObjs
    /\ cuda_arch = cudacc
    /\ hp' = Append(hp, copy_construct(hp[o], cuda_arch))
    /\ UNCHANGED <<cudacc, mem, readVal, trip>>
    /\ UNCHANGED stencilVars

\* operator[](i) of object o, assigned v
Write(o, i, v) ==
    /\ 0 <= i /\ i < hp[o].size
    /\ mem' = [mem EXCEPT ![hp[o].pointer_to_use][i] = v]
    /\ trip' = [trip EXCEPT ![i] =
            IF hp[o].pointer_to_use = hp[o].cpu_p THEN <<1, v>>
            ELSE IF @[1] = 1 \/ (@[1] = 2 /\ @[2] = v) THEN @
            ELSE NoTrip]
    /\ UNCHANGED <<cudacc, hp, readVal>>
    /\ UNCHANGED stencilVars

\* operator[](i) const of object o, read
Read(o, i) ==
    /\ 0 <= i /\ i < hp[o].size
    /\ readVal' = mem[hp[o].pointer_to_use][i]
    /\ UNCHANGED <<cudacc, hp, mem, trip>>
    /\ UNCHANGED stencilVars

\* update_gpu() of object o, a host function
UpdateGpu(o) ==
    /\ ~hp[o].cuda_arch
    /\ mem' = update_gpu(mem, hp[o], cudacc)
    /\ trip' = [i \in DOMAIN trip |->
            IF trip[i][1] \in {1, 2} THEN <<2, trip[i][2]>> ELSE NoTrip]
    /\ UNCHANGED <<cudacc, hp, readVal>>
    /\ UNCHANGED stencilVars

\* update_cpu() of object o, a host function
UpdateCpu(o) ==
    /\ ~hp[o].cuda_arch
    /\ mem' = update_cpu(mem, hp[o], cudacc)
    /\ trip' = [i \in DOMAIN trip |->
            IF trip[i][1] = 2 THEN <<3, trip[i][2]>> ELSE NoTrip]
    /\ UNCHANGED <<cudacc, hp, readVal>>
    /\ UNCHANGED stencilVars

\* no computation is in use
StencilIdle ==
    /\ d1 = 2 * halo_nc
    /\ d2 = 2 * halo_mc
    /\ d3 = 1
    /\ uninit = 0
    /\ storage = InitialStorage(d1, d2, d3, uninit)
    /\ n_esf = 1
    /\ order = "forward"
    /\ life = "built"
    /\ pc = "idle"
    /\ running = FALSE
    /\ trace = <<>>
    /\ runs = 0
    /\ benchmark = FALSE
    /\ t_steps = 0
    /\ t = 0
    /\ result = FALSE
    /\ preRun = storage
    /\ firstOut = storage["out"]
    /\ called = {}

\* the state when hybrid_pointer(size) has returned
InitHp ==
    /\ StencilIdle
    /\ cudacc \in BOOLEAN
    /\ \E size \in 1 .. MaxSize : \E a \in Values, b \in Values :
          /\ hp = <<hybrid_pointer(size, cudacc)>>
          /\ mem = allocate_it(size, cudacc, a, b)
          /\ trip = [i \in 0 .. size - 1 |-> NoTrip]
    /\ readVal = 0

NextHp ==
    \/ \E o \in 1 .. Len(hp) : \E cuda_arch \in BOOLEAN : Copy(o, cuda_arch)
    \/ \E o \in 1 .. Len(hp) : \E i \in 0 .. MaxSize - 1 : \E v \in Values : Write(o, i, v)
    \/ \E o \in 1 .. Len(hp) : \E i \in 0 .. MaxSize - 1 : Read(o, i)
    \/ \E o \in 1 .. Len(hp) : UpdateGpu(o)
    \/ \E o \in 1 .. Len(hp) : UpdateCpu(o)

SpecHp == InitHp /\ [][NextHp]_vars

\* ------------------------------------------------------- specifications
\* the state when make_computation has returned. A mesh dimension below
\* twice the halo makes d - halo - 1 wrap and puts the grid's box outside the
\* storages, so the dimensions start at twice the halo. soc::test gives
\* make_mss execute<forward>() and one stage; the schedule here is any
\* execution order with one or more stages of the functor, which is what
\* make_mss accepts.
Built ==
    /\ d1 \in 2 * halo_nc .. MaxDim
    /\ d2 \in 2 * halo_mc .. MaxDim
    /\ d3 \in 1 .. MaxLevels
    /\ uninit \in UninitValues
    /\ storage = InitialStorage(d1, d2, d3, uninit)
    /\ n_esf \in 1 .. MaxEsf
    /\ order \in Orders
    /\ life = "built"
    /\ running = FALSE
    /\ trace = <<>>
    /\ runs = 0
    /\ t = 0
    /\ result = FALSE
    /\ preRun = storage
    /\ firstOut = storage["out"]
    /\ called = {}

Init ==
    /\ Built
    /\ pc = "ready"
    /\ benchmark \in BOOLEAN
    /\ t_steps \in IF benchmark THEN 1 .. MaxSteps ELSE {1}
    /\ HpIdle

Next ==
    \/ TestReady
    \/ TestSteady
    \/ TestRun
    \/ RunStep
    \/ RunReturn
    \/ Reference
    \/ Verify
    \/ BenchRun
    \/ BenchFinalize

Spec == Init /\ [][Next]_vars

InitApi ==
    /\ Built
    /\ pc = "api"
    /\ benchmark = FALSE
    /\ t_steps = 0
    /\ HpIdle

NextApi ==
    \/ ApiReady
    \/ ApiSteady
    \/ ApiRun
    \/ ApiFinalize
    \/ RunStep
    \/ RunReturn

SpecApi == InitApi /\ [][NextApi]_vars

\* ------------------------------------------------- the stencil's properties
\* the interior GridPoints: halo <= i < d1 - halo, halo <= j < d2 - halo
InInterior(p) ==
    /\ halo_nc <= p[1] /\ p[1] < d1 - halo_nc
    /\ halo_mc <= p[3] /\ p[3] < d2 - halo_mc
Interior == {p \in Points(d1, d2, d3) : InInterior(p)}
Halo == {p \in Points(d1, d2, d3) : ~InInterior(p)}
EmptyInterior == d1 = 2 * halo_nc \/ d2 = 2 * halo_mc
Stages == 0 .. n_esf - 1
Returned == runs >= 1 /\ ~running

\* C1: once ready(), steady(), a run() and the reference walk are done, out
\* equals at every interior GridPoint of every mesh the sum of in over the
\* neighbours the topology enumerates, which is what the reference walk
\* left in ref, and verify reports agreement.
C1_NeighbourSum ==
    /\ pc \in {"verify", "bench", "done"} =>
          \A p \in Interior :
              /\ storage["out"][p] = storage["ref"][p]
              /\ storage["out"][p] = storage["in"][neighbours_of(p)[1]]
                                     + storage["in"][neighbours_of(p)[2]]
                                     + storage["in"][neighbours_of(p)[3]]
    /\ pc \in {"bench", "done"} => result

C1_Witness ==
    /\ pc = "done"
    /\ result
    /\ \E p \in Interior : storage["out"][p] > 0
    /\ \E p \in Interior, q \in Interior : storage["out"][p] # storage["out"][q]

\* C2: every storage holds at every GridPoint outside the interior box,
\* whatever the number of run() calls made, the value it held when the
\* computation was built; out holds 0 there.
C2_HaloExclusion ==
    \A p \in Halo :
        /\ \A n \in StorageNames : storage[n][p] = InitialValue(d1, d2, d3, uninit, n, p)
        /\ storage["out"][p] = 0

C2_Witness ==
    /\ runs >= 2
    /\ ~running
    /\ Halo # {}
    /\ \E p \in Interior : storage["out"][p] # 0

\* the invocations of the current run, as a set
Visited == {trace[n] : n \in 1 .. Len(trace)}

\* C3: a run() invokes the rule exactly once per stage at every interior
\* GridPoint of every colour and level, and never at a halo GridPoint: no
\* invocation is made twice, each is made at an interior GridPoint, and at
\* the return of run() none is missing.
C3_ExactlyOnce ==
    /\ Cardinality(Visited) = Len(trace)
    /\ Visited \subseteq Stages \X Interior
    /\ Returned => Visited = Stages \X Interior

C3_Witness ==
    /\ Returned
    /\ n_esf = 2
    /\ Cardinality(Interior) >= 8
    /\ Len(trace) = 2 * Cardinality(Interior)

\* C7: out after every later run() equals, at every GridPoint, out after
\* the first run().
C7_Idempotent == Returned => storage["out"] = firstOut

C7_Witness ==
    /\ Returned
    /\ runs >= 2
    /\ \E p \in Interior : storage["out"][p] # 0

\* C8: with an empty interior box (a horizontal dimension of twice the halo)
\* run() starts, visits no GridPoint, returns, and leaves every storage as
\* it was before the run.
C8_EmptyInterior ==
    EmptyInterior =>
        /\ di(d1)[3] < di(d1)[2] \/ dj(d2)[3] < dj(d2)[2]
        /\ trace = <<>>
        /\ life # "fatal"
        /\ running => ENABLED RunReturn
        /\ (running \/ runs >= 1) => storage = preRun

C8_Witness ==
    /\ EmptyInterior
    /\ Returned
    /\ d1 # d2

\* the levels a forward (backward) sweep has passed when it is at level k
Passed(k) == IF order = "forward" THEN 0 .. k ELSE k .. d3 - 1
Before(k1, k2) == IF order = "forward" THEN k1 < k2 ELSE k1 > k2
Column(p) == <<p[1], p[2], p[3]>>
At4(col, k) == <<col[1], col[2], col[3], k>>
InTrace(e, p) == \E n \in 1 .. Len(trace) : trace[n] = <<e, p>>

Rank(l) ==
    CASE l = "built" -> 0
      [] l = "ready" -> 1
      [] l = "steady" -> 2
      [] l = "running" -> 3
      [] l = "finalized" -> 4
      [] l = "fatal" -> 5

\* C4: whatever the sequence of ready(), steady(), run() and finalize()
\* calls, the lifecycle never moves backwards, a pass of run() executes
\* only after a steady() call and before any finalize() call, and a
\* run() made before steady() or after finalize() is fatal and executes
\* nothing.
C4_Lifecycle ==
    [][ /\ Rank(life') >= Rank(life)
        /\ running' => /\ "steady" \in called'
                       /\ "finalize" \notin called'
                       /\ life' = "running"
        /\ trace' # trace /\ trace' # <<>> =>
              "steady" \in called /\ "finalize" \notin called
        /\ ("run" \in called' /\ "steady" \notin called') => life' = "fatal"
        /\ life = "fatal" => life' = "fatal" /\ ~running'
      ]_vars

C4_Witness ==
    /\ life = "fatal"
    /\ runs >= 1
    /\ "finalize" \in called
    /\ trace # <<>>

\* ------------------------------------------- the hybrid_pointer's properties
HostObject == hp[1]
BothBuffers == "device" \in DOMAIN mem
Stale == BothBuffers /\ mem["host"] # mem["device"]

\* C5: an element written V through the host side, then update_gpu(), then
\* accelerator-side writes that leave the element as it is, then
\* update_cpu(), reads V through the host side.
C5_RoundTrip ==
    \A i \in DOMAIN trip :
        trip[i][1] = 3 => mem[HostObject.pointer_to_use][i] = trip[i][2]

C5_Witness ==
    /\ cudacc
    /\ \E i \in DOMAIN trip :
          /\ trip[i] = <<3, 1>>
          /\ mem["device"][i] = 1
    /\ \E i \in DOMAIN trip : trip[i][1] = 3 /\ trip[i][2] = 0

\* C6: update_gpu() leaves the host buffer as it is and makes the
\* accelerator buffer equal to it, update_cpu() leaves the accelerator
\* buffer as it is and makes the host buffer equal to it, an indexed write
\* changes one element of the buffer the object resolves to and nothing of
\* the other buffer, nothing else changes a buffer, and where the buffers
\* differ every read and sync still goes through.
C6_ExplicitSync ==
    [][ /\ \A o \in 1 .. Len(hp) :
              /\ UpdateGpu(o) =>
                    /\ mem'["host"] = mem["host"]
                    /\ BothBuffers => mem'["device"] = mem["host"]
              /\ UpdateCpu(o) =>
                    /\ BothBuffers => /\ mem'["device"] = mem["device"]
                                      /\ mem'["host"] = mem["device"]
                    /\ ~BothBuffers => mem' = mem
              /\ \A i \in 0 .. MaxSize - 1 :
                    /\ \A v \in Values :
                          Write(o, i, v) =>
                              \A n \in DOMAIN mem : \A x \in DOMAIN mem[n] :
                                  mem'[n][x] =
                                      IF n = hp[o].pointer_to_use /\ x = i
                                      THEN v ELSE mem[n][x]
                    /\ Read(o, i) => mem' = mem /\ readVal' = mem[hp[o].pointer_to_use][i]
              /\ \A cuda_arch \in BOOLEAN : Copy(o, cuda_arch) => mem' = mem
        /\ DOMAIN mem' = DOMAIN mem
        /\ Stale =>
              /\ ENABLED UpdateGpu(1)
              /\ ENABLED UpdateCpu(1)
              /\ \A o \in 1 .. Len(hp) : \A i \in 0 .. hp[o].size - 1 : ENABLED Read(o, i)
      ]_vars

C6_Witness ==
    /\ Stale
    /\ Len(hp) >= 2
    /\ readVal = mem["device"][0]
    /\ readVal # mem["host"][0]
    /\ \E i \in DOMAIN trip : trip[i][1] = 0

\* what C10 states of every state
C10_Resolves ==
    /\ HostObject.pointer_to_use = HostObject.cpu_p
    /\ HostObject.cpu_p = "host"
    /\ \A o \in 1 .. Len(hp) :
          /\ hp[o].cpu_p = HostObject.cpu_p
          /\ hp[o].gpu_p = HostObject.gpu_p
          /\ hp[o].size = HostObject.size
          /\ hp[o].pointer_to_use = IF hp[o].cuda_arch THEN hp[o].gpu_p ELSE hp[o].cpu_p
          /\ hp[o].pointer_to_use \in DOMAIN mem

\* C10: a constructed hybrid_pointer resolves to the host buffer; a copy
\* holds the host pointer, accelerator pointer and size of its original and
\* resolves to the accelerator buffer when made by accelerator code and to
\* the host buffer otherwise, whatever its original resolves to; no
\* operation changes the buffer an existing object resolves to.
C10_OneBuffer ==
    /\ C10_Resolves
    /\ [][ /\ C10_Resolves'
           /\ \A o \in 1 .. Len(hp) : hp'[o] = hp[o]
         ]_vars

C10_Witness ==
    /\ cudacc
    /\ Len(hp) = 3
    /\ hp[2].pointer_to_use = "device"
    /\ hp[3].pointer_to_use = "device"
    /\ Stale
====
